---- MODULE Spec2Model ----
(***************************************************************************)
(* Model of the tempera-pulse weather dashboard: the seed-weather-data     *)
(* edge function, the four persisted tables with their foreign keys, and   *)
(* the React components WeatherDashboard, AlertsPanel and WeatherCharts.   *)
(***************************************************************************)
EXTENDS Bags, FiniteSets, Integers, Sequences, TLC

(***************************************************************************)
(* Bounds of the model.                                                    *)
(***************************************************************************)
\* seed invocations started in one behaviour
MaxRuns == 2
\* data-store statements that return an error in one behaviour
MaxFaults == 1
\* statements issued against the data store directly in one behaviour
MaxDirect == 1
\* clicks of the user in one behaviour
MaxClicks == 1
\* the user clicks while fewer than MaxInflight queries are in flight
MaxInflight == 2
\* length of the alerts list of AlertsPanel
MaxAlertsLen == 2
\* Math.random() is drawn from RandSteps + 1 values
RandSteps == 2

(***************************************************************************)
(* Program constants of the seed function.                                 *)
(***************************************************************************)
\* for (let day = 7; day >= 0; day--)
HistDays == 7
\* for (let hour = 0; hour < 24; hour++)
HoursPerDay == 24
\* for (let day = 0; day < 5; day++)
PredDays == 5
\* hour += 6
PredStep == 6

\* the station list of the seed function, in insertion order
SeedStations == <<"Mumbai", "Pune", "Alandi", "Sangamner", "Nagpur">>

\* rainProbability is held in hundredths (0.25 is 25)
climateProfiles ==
  [n \in {"Mumbai", "Pune", "Alandi", "Sangamner", "Nagpur"} |->
     CASE n = "Mumbai" ->
            [baseTemp |-> 30, tempRange |-> 5, humidity |-> [min |-> 65, max |-> 85],
             rainProbability |-> 25, windSpeed |-> [min |-> 10, max |-> 35]]
       [] n = "Pune" ->
            [baseTemp |-> 28, tempRange |-> 7, humidity |-> [min |-> 45, max |-> 70],
             rainProbability |-> 15, windSpeed |-> [min |-> 8, max |-> 25]]
       [] n = "Alandi" ->
            [baseTemp |-> 27, tempRange |-> 6, humidity |-> [min |-> 50, max |-> 75],
             rainProbability |-> 18, windSpeed |-> [min |-> 7, max |-> 22]]
       [] n = "Sangamner" ->
            [baseTemp |-> 29, tempRange |-> 8, humidity |-> [min |-> 40, max |-> 65],
             rainProbability |-> 20, windSpeed |-> [min |-> 12, max |-> 30]]
       [] OTHER ->
            [baseTemp |-> 32, tempRange |-> 9, humidity |-> [min |-> 35, max |-> 60],
             rainProbability |-> 12, windSpeed |-> [min |-> 5, max |-> 20]]]

\* (variant: the lookup never finds the station and falls back)
ProfileOfFallback(name) == climateProfiles["Pune"]

\* climateProfiles[station.name] || climateProfiles["Pune"]
ProfileOf(name) ==
  IF name \in DOMAIN climateProfiles THEN climateProfiles[name] ELSE climateProfiles["Pune"]

\* the two callers of the edge function: the dashboard and any other client
DashProc == 1
Procs == {1, 2}

\* the empty string of selectedStation (station ids are positive)
NoStation == 0
\* the null of currentWeather
Null == [station_id |-> 0, hoursAgo |-> 0 - 1]
\* nothing generated yet
NoSample == [kind |-> "none"]

VARIABLES
  \* the four tables
  weather_stations, weather_data, weather_predictions, weather_alerts,
  \* gen_random_uuid(): the number of ids handed out
  nextId,
  \* bound counters: seed calls, failed statements, direct statements
  runs, faults, direct,
  \* one seed invocation per caller: position, locals, response
  pc, stationsData, alerts_local, result,
  \* realtime: the channels subscribed and the change events not yet delivered
  wdSubscribed, wdPending, channels, alertEvents,
  \* the selectedStation seen by the callback of the 'weather-updates' channel
  subSelectedStation,
  \* the clicks of the user so far
  clicks,
  \* the item the generator of the seed function made last
  sample,
  \* WeatherDashboard
  mounted, stations, selectedStation, currentWeather, loading, seeding,
  \* data-store queries in flight, toasts on screen, console.error lines
  requests, toasts, console,
  \* AlertsPanel
  alerts, apLoading,
  \* WeatherCharts of the active tab
  activeTab, chartData, chartLoading

dbVars == <<weather_stations, weather_data, weather_predictions, weather_alerts, nextId>>
seedVars == <<pc, stationsData, alerts_local, result>>
notifVars == <<wdPending, alertEvents>>
subVars == <<wdSubscribed, channels>>
dashVars == <<mounted, stations, selectedStation, currentWeather, loading, seeding>>
ioVars == <<requests, toasts, console>>
panelVars == <<alerts, apLoading>>
chartVars == <<activeTab, chartData, chartLoading>>
uiVars == <<subVars, subSelectedStation, sample, clicks, dashVars, ioVars, panelVars, chartVars>>
vars == <<dbVars, runs, faults, direct, seedVars, notifVars, uiVars>>

(***************************************************************************)
(* The persisted schema (migration) and the statements the code issues.    *)
(***************************************************************************)
StationIds == {s.id : s \in weather_stations}

\* A child table is held grouped by its foreign key: table[s] is the set of
\* rows whose station_id is s, and DOMAIN table the station ids in use.
NoRows == [s \in {} |-> {}]

RowsOf(table, s) == IF s \in DOMAIN table THEN table[s] ELSE {}

AllAlertRows == UNION {weather_alerts[s] : s \in DOMAIN weather_alerts}

\* station_id UUID NOT NULL REFERENCES weather_stations(id): an insert
\* statement is rejected as a whole when one row names a missing station
ForeignKeyOk(rows) == DOMAIN rows \subseteq StationIds

\* INSERT of the rows into the table
InsertRows(table, rows) ==
  [s \in DOMAIN table \cup DOMAIN rows |-> RowsOf(table, s) \cup RowsOf(rows, s)]

\* (variant: an upsert on name, replacing the rows of the same names)
UpsertStationRows(table, new) ==
  {s \in table : s.name \notin {n.name : n \in new}} \cup new

\* INSERT into weather_stations: name carries no unique constraint and the
\* call names no conflict key, so every row is added
InsertStationRows(table, new) == table \cup new

\* (variant: foreign keys without ON DELETE CASCADE, child rows stay)
NoCascadeDelete(table, S) == table

\* (variant: the cascade empties the child table)
CascadeDeleteAll(table, S) == [s \in {} |-> {}]

\* ON DELETE CASCADE: the child rows left after the stations S are deleted
CascadeDelete(table, S) == [s \in DOMAIN table \ S |-> table[s]]

\* supabase_realtime publication: a change of weather_data reaches the
\* 'weather-updates' channel when it is subscribed
PublishData(changed) == wdPending' = (wdPending \/ (changed /\ wdSubscribed))

\* an INSERT or UPDATE of weather_alerts reaches every channel whose filter
\* station_id=eq.<id> matches the row
PublishAlerts(eventType, rows) ==
  alertEvents' = alertEvents \cup
     UNION {{[eventType |-> eventType, new |-> r] : r \in rows[s]} :
              s \in DOMAIN rows \cap channels}

(***************************************************************************)
(* Series generator of the seed function.                                  *)
(***************************************************************************)
\* timestamp = Date.now() - (day * 24 + (23 - hour)) * 3600000
\* (a row of weather_data is held as its number of hours before now)
HoursAgoForward(day, hour) == day * HoursPerDay + hour

HoursAgo(day, hour) == day * HoursPerDay + ((HoursPerDay - 1) - hour)

\* (variant: for (let day = 7; day > 0; day--))
HistoricalLoopExclusive ==
  [i \in 1..(HistDays * HoursPerDay) |->
     [day |-> HistDays - ((i - 1) \div HoursPerDay), hour |-> (i - 1) % HoursPerDay]]

\* the iterations of for (day = 7; day >= 0; day--) for (hour = 0; hour < 24;
\* hour++), in the order they run
HistoricalLoop ==
  [i \in 1..((HistDays + 1) * HoursPerDay) |->
     [day |-> HistDays - ((i - 1) \div HoursPerDay), hour |-> (i - 1) % HoursPerDay]]

HistoricalRows ==
  {HoursAgo(HistoricalLoop[i].day, HistoricalLoop[i].hour) : i \in DOMAIN HistoricalLoop}

\* predDate = Date.now() + (day * 24 + hour) * 3600000
PredictionHours == {h \in 0..(HoursPerDay - 1) : h % PredStep = 0}

\* (a row of weather_predictions is held as its number of hours after now)
HoursAhead(day, hour) == day * HoursPerDay + hour

\* (variant: for (let day = 0; day <= 5; day++))
PredictionLoopInclusive ==
  LET perDay == Cardinality(PredictionHours)
  IN [i \in 1..((PredDays + 1) * perDay) |->
        [day |-> (i - 1) \div perDay, hour |-> ((i - 1) % perDay) * PredStep]]

\* the iterations of for (day = 0; day < 5; day++) for (hour = 0; hour < 24;
\* hour += 6), in the order they run
PredictionLoop ==
  LET perDay == Cardinality(PredictionHours)
  IN [i \in 1..(PredDays * perDay) |->
        [day |-> (i - 1) \div perDay, hour |-> ((i - 1) % perDay) * PredStep]]

PredictionRows ==
  {HoursAhead(PredictionLoop[i].day, PredictionLoop[i].hour) : i \in DOMAIN PredictionLoop}

\* the local arrays weatherData and predictions after the station loop
GenWeatherData(sd) == [s \in {sd[i].id : i \in DOMAIN sd} |-> HistoricalRows]

GenPredictions(sd) == [s \in {sd[i].id : i \in DOMAIN sd} |-> PredictionRows]

\* (variant: the heat wave threshold is inclusive)
AlertsOfInclusive(id, profile, coin) ==
  LET avgTemp == profile.baseTemp
      isHeatWave == avgTemp >= 38
      isHeavyRain == profile.rainProbability > 22
      isHighWind == profile.windSpeed.max > 30
      mk(type, sev) == <<[station_id |-> id, alert_type |-> type,
                          severity |-> sev, is_active |-> TRUE]>>
  IN  (IF isHeatWave
         THEN mk("Heat Wave Warning", IF avgTemp > 42 THEN "extreme" ELSE "high")
         ELSE <<>>)
      \o (IF isHeavyRain THEN mk("Heavy Rainfall Alert", "medium") ELSE <<>>)
      \o (IF isHighWind THEN mk("Strong Wind Advisory", "medium") ELSE <<>>)
      \o (IF profile.humidity.max > 75 /\ coin
            THEN mk("High Humidity Alert", "low") ELSE <<>>)

\* (variant: the severity of the hottest heat wave is spelled severe)
AlertsOfSevere(id, profile, coin) ==
  LET avgTemp == profile.baseTemp
      isHeatWave == avgTemp > 38
      isHeavyRain == profile.rainProbability > 22
      isHighWind == profile.windSpeed.max > 30
      mk(type, sev) == <<[station_id |-> id, alert_type |-> type,
                          severity |-> sev, is_active |-> TRUE]>>
  IN  (IF isHeatWave
         THEN mk("Heat Wave Warning", IF avgTemp > 42 THEN "severe" ELSE "high")
         ELSE <<>>)
      \o (IF isHeavyRain THEN mk("Heavy Rainfall Alert", "medium") ELSE <<>>)
      \o (IF isHighWind THEN mk("Strong Wind Advisory", "medium") ELSE <<>>)
      \o (IF profile.humidity.max > 75 /\ coin
            THEN mk("High Humidity Alert", "low") ELSE <<>>)

\* (variant: the heavy rain threshold is inclusive)
AlertsOfRainInclusive(id, profile, coin) ==
  LET avgTemp == profile.baseTemp
      isHeatWave == avgTemp > 38
      isHeavyRain == profile.rainProbability >= 22
      isHighWind == profile.windSpeed.max > 30
      mk(type, sev) == <<[station_id |-> id, alert_type |-> type,
                          severity |-> sev, is_active |-> TRUE]>>
  IN  (IF isHeatWave
         THEN mk("Heat Wave Warning", IF avgTemp > 42 THEN "extreme" ELSE "high")
         ELSE <<>>)
      \o (IF isHeavyRain THEN mk("Heavy Rainfall Alert", "medium") ELSE <<>>)
      \o (IF isHighWind THEN mk("Strong Wind Advisory", "medium") ELSE <<>>)
      \o (IF profile.humidity.max > 75 /\ coin
            THEN mk("High Humidity Alert", "low") ELSE <<>>)

\* the alerts pushed for a station of a profile; coin is Math.random() > 0.5
AlertsOf(id, profile, coin) ==
  LET avgTemp == profile.baseTemp
      isHeatWave == avgTemp > 38
      isHeavyRain == profile.rainProbability > 22
      isHighWind == profile.windSpeed.max > 30
      mk(type, sev) == <<[station_id |-> id, alert_type |-> type,
                          severity |-> sev, is_active |-> TRUE]>>
  IN  (IF isHeatWave
         THEN mk("Heat Wave Warning", IF avgTemp > 42 THEN "extreme" ELSE "high")
         ELSE <<>>)
      \o (IF isHeavyRain THEN mk("Heavy Rainfall Alert", "medium") ELSE <<>>)
      \o (IF isHighWind THEN mk("Strong Wind Advisory", "medium") ELSE <<>>)
      \o (IF profile.humidity.max > 75 /\ coin
            THEN mk("High Humidity Alert", "low") ELSE <<>>)

AlertsFor(st, coin) == AlertsOf(st.id, ProfileOf(st.name), coin)

RECURSIVE GenAlerts(_, _, _)
GenAlerts(sd, coins, i) ==
  IF i > Len(sd) THEN <<>>
  ELSE AlertsFor(sd[i], IF i \in DOMAIN coins THEN coins[i] ELSE FALSE)
         \o GenAlerts(sd, coins, i + 1)

\* the stations whose High Humidity coin is flipped at all
CoinIndices == {i \in DOMAIN SeedStations : ProfileOf(SeedStations[i]).humidity.max > 75}

\* ---- the values of the generated rows ----
\* Numbers with a fraction are held in thousandths; a column written with
\* toFixed(2) is held in hundredths.
Unit == 1000

\* the values Math.random() is drawn from: 0 <= Math.random() < 1
Rand == {(i * (Unit - 1)) \div RandSteps : i \in 0..RandSteps}

Max(a, b) == IF a > b THEN a ELSE b
Min(a, b) == IF a < b THEN a ELSE b

\* Number(x.toFixed(2)) of x >= 0
ToFixed2(x) == (x + 5) \div 10

\* Math.sin of k/24 of a turn, rounded to thousandths
Sin24(k) ==
  LET quarter == <<0, 259, 500, 707, 866, 966, 1000>>
      m == ((k % 24) + 24) % 24
  IN  CASE m <= 6 -> quarter[m + 1]
        [] m <= 12 -> quarter[(12 - m) + 1]
        [] m <= 18 -> 0 - quarter[(m - 12) + 1]
        [] OTHER -> 0 - quarter[(24 - m) + 1]

\* hourFactor = Math.sin((hour - 6) / 24 * Math.PI * 2)
HourFactor(hour) == Sin24(hour - 6)

\* humidityBase = min + (max - min) * (1 - (hourFactor + 1) / 2)
HumidityBase(profile, hour) ==
  profile.humidity.min * Unit
    + ((profile.humidity.max - profile.humidity.min) * (Unit - HourFactor(hour))) \div 2

\* (variant: the humidity is written as computed)
HumidityUnclamped(profile, hour, r) ==
  ToFixed2(Max(0, HumidityBase(profile, hour) + (r - Unit \div 2) * 10))

\* the humidity column of an observation
Humidity(profile, hour, r) ==
  LET humidity == HumidityBase(profile, hour) + (r - Unit \div 2) * 10
  IN  ToFixed2(Max(20 * Unit, Min(95 * Unit, humidity)))

\* the precipitation column; rainProbability is held in hundredths
Precipitation(profile, r1, r2) ==
  ToFixed2(IF r1 * 100 < profile.rainProbability * Unit THEN r2 * 15 + 2 * Unit ELSE 0)

\* the wind_speed column
WindSpeed(profile, r1, r2) ==
  LET windBase == profile.windSpeed.min * Unit
                    + (profile.windSpeed.max - profile.windSpeed.min) * r1
  IN  ToFixed2(Max(windBase + (r2 - Unit \div 2) * 5, 0))

\* (variant: the predicted humidity is written as computed)
PredictedHumidityUnclamped(profile, hour, r) ==
  ToFixed2(Max(0, HumidityBase(profile, hour) + (r - Unit \div 2) * 8))

\* the predicted_humidity column of a prediction
PredictedHumidity(profile, hour, r) ==
  LET predictedHumidity == HumidityBase(profile, hour) + (r - Unit \div 2) * 8
  IN  ToFixed2(Max(20 * Unit, Min(95 * Unit, predictedHumidity)))

\* (variant: the noise of the confidence is ten points wide)
ConfidenceWide(day, r) ==
  LET confidence == 95 * Unit - (day * 3) * Unit + (r - Unit \div 2) * 10
  IN  ToFixed2(Max(75 * Unit, Min(98 * Unit, confidence)))

\* the confidence column of a prediction
Confidence(day, r) ==
  LET confidence == 95 * Unit - (day * 3) * Unit + (r - Unit \div 2) * 4
  IN  ToFixed2(Max(75 * Unit, Min(98 * Unit, confidence)))

\* the i-th row pushed to weatherData for a station of the profile; r holds
\* the outcomes of Math.random() in the order they are drawn
Observation(profile, i, r) ==
  LET day == HistoricalLoop[i].day
      hour == HistoricalLoop[i].hour
  IN  [kind |-> "observation", profile |-> profile, index |-> i,
       hoursAgo |-> HoursAgo(day, hour),
       humidity |-> Humidity(profile, hour, r[1]),
       precipitation |-> Precipitation(profile, r[2], r[3]),
       wind_speed |-> WindSpeed(profile, r[4], r[5])]

\* the i-th row pushed to predictions for a station of the profile
Prediction(profile, i, r) ==
  LET day == PredictionLoop[i].day
      hour == PredictionLoop[i].hour
  IN  [kind |-> "prediction", profile |-> profile, index |-> i,
       day |-> day, hour |-> hour,
       hoursAhead |-> HoursAhead(day, hour),
       predicted_humidity |-> PredictedHumidity(profile, hour, r[1]),
       confidence |-> Confidence(day, r[2]),
       earlier |-> [day |-> 0 - 1, confidence |-> 0]]

\* profiles around the thresholds and clamps of the generator
TestProfiles ==
  {[baseTemp |-> 38, tempRange |-> 5, humidity |-> [min |-> 5, max |-> 30],
    rainProbability |-> 0, windSpeed |-> [min |-> 0, max |-> 0]],
   [baseTemp |-> 39, tempRange |-> 5, humidity |-> [min |-> 80, max |-> 100],
    rainProbability |-> 100, windSpeed |-> [min |-> 0, max |-> 2]],
   [baseTemp |-> 42, tempRange |-> 5, humidity |-> [min |-> 50, max |-> 75],
    rainProbability |-> 22, windSpeed |-> [min |-> 10, max |-> 30]],
   [baseTemp |-> 43, tempRange |-> 5, humidity |-> [min |-> 50, max |-> 76],
    rainProbability |-> 23, windSpeed |-> [min |-> 10, max |-> 31]]}

Profiles == {climateProfiles[n] : n \in DOMAIN climateProfiles} \cup TestProfiles

(***************************************************************************)
(* The seed-weather-data handler, one action per awaited statement.        *)
(***************************************************************************)
\* catch (error): respond with status 500 and the error message
Throw(p, err) ==
  /\ pc' = [pc EXCEPT ![p] = "done"]
  /\ result' = [result EXCEPT ![p] = err]

Goto(p, label) ==
  /\ pc' = [pc EXCEPT ![p] = label]
  /\ UNCHANGED result

\* the data store answers a statement with an error instead of running it
Fault ==
  /\ faults < MaxFaults
  /\ faults' = faults + 1

\* serve(async (req) => ...: a request starts the handler
Invoke(p) ==
  /\ runs < MaxRuns
  /\ runs' = runs + 1
  /\ pc' = [pc EXCEPT ![p] = "delAlerts"]
  /\ result' = [result EXCEPT ![p] = "none"]
  /\ stationsData' = [stationsData EXCEPT ![p] = <<>>]
  /\ alerts_local' = [alerts_local EXCEPT ![p] = <<>>]

\* await supabase.from('weather_alerts').delete().neq('id', zero): the
\* result of the call is not looked at
DeleteAlerts(p) ==
  /\ pc[p] = "delAlerts"
  /\ \/ /\ weather_alerts' = NoRows
        /\ UNCHANGED faults
     \/ /\ Fault
        /\ UNCHANGED weather_alerts
  /\ Goto(p, "delPreds")
  /\ UNCHANGED <<weather_stations, weather_data, weather_predictions, nextId, runs, direct,
                 stationsData, alerts_local, notifVars, uiVars>>

DeletePredictions(p) ==
  /\ pc[p] = "delPreds"
  /\ \/ /\ weather_predictions' = NoRows
        /\ UNCHANGED faults
     \/ /\ Fault
        /\ UNCHANGED weather_predictions
  /\ Goto(p, "delData")
  /\ UNCHANGED <<weather_stations, weather_data, weather_alerts, nextId, runs, direct,
                 stationsData, alerts_local, notifVars, uiVars>>

DeleteData(p) ==
  /\ pc[p] = "delData"
  /\ \/ /\ weather_data' = NoRows
        /\ PublishData(weather_data # NoRows)
        /\ UNCHANGED faults
     \/ /\ Fault
        /\ UNCHANGED <<weather_data, wdPending>>
  /\ Goto(p, "delStations")
  /\ UNCHANGED <<weather_stations, weather_predictions, weather_alerts, nextId, runs, direct,
                 stationsData, alerts_local, alertEvents, uiVars>>

\* DELETE FROM weather_stations of the rows whose id is in S: the foreign
\* keys of the three child tables cascade
DeleteStationRows(S) ==
  /\ weather_stations' = {s \in weather_stations : s.id \notin S}
  /\ weather_data' = CascadeDelete(weather_data, S)
  /\ weather_predictions' = CascadeDelete(weather_predictions, S)
  /\ weather_alerts' = CascadeDelete(weather_alerts, S)
  /\ PublishData(DOMAIN weather_data \cap S # {})

\* await supabase.from('weather_stations').delete().neq('id', zero): every
\* row passes the filter
DeleteStations(p) ==
  /\ pc[p] = "delStations"
  /\ \/ /\ DeleteStationRows(StationIds)
        /\ UNCHANGED faults
     \/ /\ Fault
        /\ UNCHANGED <<weather_stations, weather_data, weather_predictions,
                       weather_alerts, wdPending>>
  /\ Goto(p, "insStations")
  /\ UNCHANGED <<nextId, runs, direct, stationsData, alerts_local, alertEvents, uiVars>>

\* insert(stations).select(), then the station loop that fills the local
\* arrays weatherData, predictions and alerts
InsertStations(p) ==
  /\ pc[p] = "insStations"
  /\ \/ /\ \E coins \in [CoinIndices -> BOOLEAN] :
             LET new == [i \in DOMAIN SeedStations |->
                           [id |-> nextId + i, name |-> SeedStations[i]]]
             IN  /\ weather_stations' =
                       InsertStationRows(weather_stations, {new[i] : i \in DOMAIN new})
                 /\ nextId' = nextId + Len(SeedStations)
                 /\ stationsData' = [stationsData EXCEPT ![p] = new]
                 /\ alerts_local' = [alerts_local EXCEPT ![p] = GenAlerts(new, coins, 1)]
        /\ Goto(p, "insData")
        /\ UNCHANGED faults
     \/ /\ Fault
        /\ Throw(p, "stationsError")
        /\ UNCHANGED <<weather_stations, nextId, stationsData, alerts_local>>
  /\ UNCHANGED <<weather_data, weather_predictions, weather_alerts, runs, direct,
                 notifVars, uiVars>>

InsertData(p) ==
  /\ pc[p] = "insData"
  /\ LET weatherData == GenWeatherData(stationsData[p])
     IN \/ /\ ForeignKeyOk(weatherData)
           /\ weather_data' = InsertRows(weather_data, weatherData)
           /\ PublishData(TRUE)
           /\ Goto(p, "insPreds")
           /\ UNCHANGED faults
        \/ /\ ~ForeignKeyOk(weatherData)
           /\ Throw(p, "dataError")
           /\ UNCHANGED <<weather_data, wdPending, faults>>
        \/ /\ Fault
           /\ Throw(p, "dataError")
           /\ UNCHANGED <<weather_data, wdPending>>
  /\ UNCHANGED <<weather_stations, weather_predictions, weather_alerts, nextId, runs, direct,
                 stationsData, alerts_local, alertEvents, uiVars>>

\* the success response
Respond(p) ==
  /\ pc' = [pc EXCEPT ![p] = "done"]
  /\ result' = [result EXCEPT ![p] = "success"]

\* (variant: the bulk inserts run in one transaction, a failure rolls the
\* stations and observations of the run back)
InsertPredictionsAtomic(p) ==
  /\ pc[p] = "insPreds"
  /\ LET predictions == GenPredictions(stationsData[p])
         ids == {stationsData[p][i].id : i \in DOMAIN stationsData[p]}
         Rollback == /\ weather_stations' = {s \in weather_stations : s.id \notin ids}
                     /\ weather_data' = CascadeDelete(weather_data, ids)
                     /\ UNCHANGED weather_predictions
                     /\ Throw(p, "predError")
     IN \/ /\ ForeignKeyOk(predictions)
           /\ weather_predictions' = InsertRows(weather_predictions, predictions)
           /\ IF Len(alerts_local[p]) > 0 THEN Goto(p, "insAlerts") ELSE Respond(p)
           /\ UNCHANGED <<faults, weather_stations, weather_data>>
        \/ /\ ~ForeignKeyOk(predictions)
           /\ Rollback
           /\ UNCHANGED faults
        \/ /\ Fault
           /\ Rollback
  /\ UNCHANGED <<weather_alerts, nextId, runs, direct, stationsData, alerts_local,
                 notifVars, uiVars>>

InsertPredictions(p) ==
  /\ pc[p] = "insPreds"
  /\ LET predictions == GenPredictions(stationsData[p])
     IN \/ /\ ForeignKeyOk(predictions)
           /\ weather_predictions' = InsertRows(weather_predictions, predictions)
           /\ IF Len(alerts_local[p]) > 0 THEN Goto(p, "insAlerts") ELSE Respond(p)
           /\ UNCHANGED faults
        \/ /\ ~ForeignKeyOk(predictions)
           /\ Throw(p, "predError")
           /\ UNCHANGED <<weather_predictions, faults>>
        \/ /\ Fault
           /\ Throw(p, "predError")
           /\ UNCHANGED weather_predictions
  /\ UNCHANGED <<weather_stations, weather_data, weather_alerts, nextId, runs, direct,
                 stationsData, alerts_local, notifVars, uiVars>>

\* the rows the data store makes of the alerts array al: each gets an id,
\* and created_at DEFAULT now() is the same for the rows of one statement
AlertRows(al, base) ==
  LET row(i) == [id |-> base + i, station_id |-> al[i].station_id,
                 alert_type |-> al[i].alert_type, severity |-> al[i].severity,
                 is_active |-> al[i].is_active, created_at |-> base]
  IN [s \in {al[i].station_id : i \in DOMAIN al} |->
        {row(i) : i \in {j \in DOMAIN al : al[j].station_id = s}}]

InsertAlerts(p) ==
  /\ pc[p] = "insAlerts"
  /\ LET al == alerts_local[p]
         rows == AlertRows(al, nextId)
     IN \/ /\ ForeignKeyOk(rows)
           /\ weather_alerts' = InsertRows(weather_alerts, rows)
           /\ nextId' = nextId + Len(al)
           /\ PublishAlerts("INSERT", rows)
           /\ Respond(p)
           /\ UNCHANGED faults
        \/ /\ ~ForeignKeyOk(rows)
           /\ Throw(p, "alertError")
           /\ UNCHANGED <<weather_alerts, nextId, alertEvents, faults>>
        \/ /\ Fault
           /\ Throw(p, "alertError")
           /\ UNCHANGED <<weather_alerts, nextId, alertEvents>>
  /\ UNCHANGED <<weather_stations, weather_data, weather_predictions, runs, direct,
                 stationsData, alerts_local, wdPending, uiVars>>

SeedStep(p) ==
  \/ DeleteAlerts(p)
  \/ DeletePredictions(p)
  \/ DeleteData(p)
  \/ DeleteStations(p)
  \/ InsertStations(p)
  \/ InsertData(p)
  \/ InsertPredictions(p)
  \/ InsertAlerts(p)

\* a client other than this dashboard calls the function
ExternalInvoke(p) ==
  /\ pc[p] \in {"idle", "done"}
  /\ Invoke(p)
  /\ UNCHANGED <<dbVars, faults, direct, notifVars, uiVars>>

(***************************************************************************)
(* Queries of the components: what the data store answers.                 *)
(***************************************************************************)
\* .order('name'): the collation order of the station names
NamesSorted == <<"Alandi", "Mumbai", "Nagpur", "Pune", "Sangamner">>

NameRank(n) == CHOOSE i \in DOMAIN NamesSorted : NamesSorted[i] = n

\* the station rows of S as a list in the order of name; rows of one name
\* in the order they were written
StationKey(s) == NameRank(s.name) * (nextId + 1) + s.id

RECURSIVE SortStations(_)
SortStations(S) ==
  IF S = {} THEN <<>>
  ELSE LET m == CHOOSE x \in S : \A y \in S : StationKey(x) <= StationKey(y)
       IN <<m>> \o SortStations(S \ {m})

\* the lists that hold every element of S once
Perms(S) ==
  {f \in [1..Cardinality(S) -> S] : \A i, j \in DOMAIN f : i # j => f[i] # f[j]}

\* .limit(n)
Limit(seq, n) == SubSeq(seq, 1, IF Len(seq) < n THEN Len(seq) ELSE n)

\* the n smallest numbers of S, ascending; the hours of a row lie within
\* the days the generator covers
Smallest(S, n) ==
  LET hours == [i \in 1..((HistDays + 1 + PredDays) * HoursPerDay) |-> i - 1]
      In(x) == x \in S
  IN Limit(SelectSeq(hours, In), n)

\* data?.reverse()
Reverse(seq) == [i \in 1..Len(seq) |-> seq[Len(seq) + 1 - i]]

\* from('weather_stations').select('*').order('name'): rows of one name
\* come in no specified order, so any of them may be the first of the list
StationLists ==
  IF weather_stations = {} THEN {<<>>}
  ELSE LET low == CHOOSE r \in 1..Len(NamesSorted) :
                    /\ \E s \in weather_stations : NameRank(s.name) = r
                    /\ \A s \in weather_stations : NameRank(s.name) >= r
       IN {<<f>> \o SortStations(weather_stations \ {f}) :
             f \in {s \in weather_stations : NameRank(s.name) = low}}

\* from('weather_data').eq('station_id', sid).order('timestamp', desc).limit(n)
LatestData(sid, n) == Smallest(RowsOf(weather_data, sid), n)

\* from('weather_predictions').eq('station_id', sid).order('prediction_date').limit(n)
FirstPredictions(sid, n) == Smallest(RowsOf(weather_predictions, sid), n)

\* .limit(10) of loadAlerts, .limit(40), .limit(48) and .limit(24) of the charts
AlertsLimit == 10
ForecastLimit == 40
HistoricalLimit == 48
AnalyticsLimit == 24

\* from('weather_alerts').eq('station_id', sid).eq('is_active', true)
\*   .order('created_at', desc).limit(10): rows of one created_at come in
\* no specified order
ActiveAlerts(sid) ==
  {Limit(l, AlertsLimit) :
     l \in {f \in Perms({a \in RowsOf(weather_alerts, sid) : a.is_active}) :
             \A i, j \in DOMAIN f : i < j => f[i].created_at >= f[j].created_at}}

(***************************************************************************)
(* Requests in flight between a component and the data store.              *)
(***************************************************************************)
Req(comp, kind, sid) ==
  [comp |-> comp, kind |-> kind, station |-> sid, stage |-> "sent", error |-> FALSE,
   data |-> <<>>, data2 |-> <<>>, fromSeed |-> FALSE, live |-> TRUE]

Tabs == {"forecast", "historical", "analytics"}

\* useEffect of WeatherCharts: the loader of the type
ChartKind(type) ==
  CASE type = "forecast" -> "loadForecastData"
    [] type = "historical" -> "loadHistoricalData"
    [] OTHER -> "loadAnalyticsData"

Pending == BagToSet(requests)

Without(r) == requests (-) SetToBag({r})

\* the requests of the unmounted AlertsPanel and WeatherCharts instances
\* stay in flight, their answers reach no component state
Orphan(B, comps) ==
  LET dead(e) == IF e.comp \in comps THEN [e EXCEPT !.live = FALSE] ELSE e
      T == {dead(e) : e \in BagToSet(B)}
  IN [t \in T |->
        IF t.comp \in comps
          THEN CopiesIn(t, B) + CopiesIn([t EXCEPT !.live = TRUE], B)
          ELSE CopiesIn(t, B)]

\* the data store runs the query of a request: an answer or an error
Answered(r, err, d) == [r EXCEPT !.stage = "answered", !.error = err, !.data = d]

\* (a variant whose alerts query acknowledges what it returns)
DbAnswerAcknowledges(r) ==
  /\ r \in Pending
  /\ r.stage \in {"sent", "mid"}
  /\ \/ /\ Fault
        /\ UNCHANGED weather_alerts
        /\ requests' = Without(r) (+) SetToBag({
              IF r.kind = "loadAnalyticsData" /\ r.stage = "sent"
                THEN [r EXCEPT !.stage = "mid", !.error = TRUE]
                ELSE [r EXCEPT !.stage = "answered", !.error = TRUE]})
     \/ /\ UNCHANGED faults
        /\ \E a \in
             CASE r.kind = "loadStations" -> {Answered(r, FALSE, d) : d \in StationLists}
               \* .single(): no row is an error
               [] r.kind = "loadCurrentWeather" ->
                    {IF RowsOf(weather_data, r.station) = {}
                       THEN Answered(r, TRUE, <<>>)
                       ELSE Answered(r, FALSE,
                              <<[station_id |-> r.station,
                                 hoursAgo |-> LatestData(r.station, 1)[1]]>>)}
               [] r.kind = "loadAlerts" -> {Answered(r, FALSE, d) : d \in ActiveAlerts(r.station)}
               [] r.kind = "loadForecastData" ->
                    {Answered(r, FALSE, FirstPredictions(r.station, ForecastLimit))}
               [] r.kind = "loadHistoricalData" ->
                    {Answered(r, FALSE, LatestData(r.station, HistoricalLimit))}
               \* loadAnalyticsData awaits two queries, one after the other
               [] OTHER ->
                    {IF r.stage = "sent"
                       THEN [r EXCEPT !.stage = "mid",
                                      !.data = LatestData(r.station, AnalyticsLimit)]
                       ELSE [r EXCEPT !.stage = "answered",
                                      !.data2 = FirstPredictions(r.station, AnalyticsLimit)]} :
             /\ requests' = Without(r) (+) SetToBag({a})
             \* the alerts handed out are marked as seen
             /\ weather_alerts' =
                  IF r.kind = "loadAlerts"
                    THEN [weather_alerts EXCEPT ![r.station] =
                            {[x EXCEPT !.is_active = FALSE] : x \in @}]
                    ELSE weather_alerts
  /\ UNCHANGED <<weather_stations, weather_data, weather_predictions, nextId, runs, direct, seedVars, notifVars, subVars,
                 subSelectedStation, sample, clicks, dashVars, toasts, console, panelVars, chartVars>>

DbAnswer(r) ==
  /\ r \in Pending
  /\ r.stage \in {"sent", "mid"}
  /\ \/ /\ Fault
        /\ requests' = Without(r) (+) SetToBag({
              IF r.kind = "loadAnalyticsData" /\ r.stage = "sent"
                THEN [r EXCEPT !.stage = "mid", !.error = TRUE]
                ELSE [r EXCEPT !.stage = "answered", !.error = TRUE]})
     \/ /\ UNCHANGED faults
        /\ \E a \in
             CASE r.kind = "loadStations" -> {Answered(r, FALSE, d) : d \in StationLists}
               \* .single(): no row is an error
               [] r.kind = "loadCurrentWeather" ->
                    {IF RowsOf(weather_data, r.station) = {}
                       THEN Answered(r, TRUE, <<>>)
                       ELSE Answered(r, FALSE,
                              <<[station_id |-> r.station,
                                 hoursAgo |-> LatestData(r.station, 1)[1]]>>)}
               [] r.kind = "loadAlerts" -> {Answered(r, FALSE, d) : d \in ActiveAlerts(r.station)}
               [] r.kind = "loadForecastData" ->
                    {Answered(r, FALSE, FirstPredictions(r.station, ForecastLimit))}
               [] r.kind = "loadHistoricalData" ->
                    {Answered(r, FALSE, LatestData(r.station, HistoricalLimit))}
               \* loadAnalyticsData awaits two queries, one after the other
               [] OTHER ->
                    {IF r.stage = "sent"
                       THEN [r EXCEPT !.stage = "mid",
                                      !.data = LatestData(r.station, AnalyticsLimit)]
                       ELSE [r EXCEPT !.stage = "answered",
                                      !.data2 = FirstPredictions(r.station, AnalyticsLimit)]} :
             requests' = Without(r) (+) SetToBag({a})
  /\ UNCHANGED <<dbVars, runs, direct, seedVars, notifVars, subVars,
                 subSelectedStation, sample, clicks, dashVars, toasts, console, panelVars, chartVars>>

(***************************************************************************)
(* WeatherDashboard.                                                       *)
(***************************************************************************)
\* neither the spinner nor the "No Data Available" card: the main view,
\* which holds AlertsPanel and the Tabs with WeatherCharts
MainView(ld, st) == ~ld /\ Len(st) > 0

\* What a render does after stations, selectedStation or loading were set:
\* useEffect([selectedStation]) of the dashboard, and mount, unmount and
\* useEffect([stationId]) of AlertsPanel and of WeatherCharts.
Rendered(base) ==
  LET was == MainView(loading, stations)
      is == MainView(loading', stations')
      sel == selectedStation'
      changed == sel # selectedStation
      cw == IF changed /\ sel # NoStation
              THEN {Req("weather", "loadCurrentWeather", sel)} ELSE {}
  IN IF ~was /\ is
       THEN /\ requests' = base (+) SetToBag(cw \cup
                 {Req("alerts", "loadAlerts", sel),
                  Req("chart", ChartKind("forecast"), sel)})
            /\ channels' = {sel}
            /\ alerts' = <<>>
            /\ apLoading' = TRUE
            /\ activeTab' = "forecast"
            /\ chartData' = <<>>
            /\ chartLoading' = TRUE
            /\ UNCHANGED alertEvents
     ELSE IF was /\ is /\ changed
       THEN /\ requests' = base (+) SetToBag(cw \cup
                 {Req("alerts", "loadAlerts", sel),
                  Req("chart", ChartKind(activeTab), sel)})
            /\ channels' = channels \cup {sel}
            /\ UNCHANGED <<alertEvents, panelVars, chartVars>>
     ELSE IF was /\ ~is
       THEN /\ requests' = Orphan(base, {"alerts", "chart"}) (+) SetToBag(cw)
            /\ channels' = {}
            /\ alertEvents' = {}
            /\ alerts' = <<>>
            /\ apLoading' = TRUE
            /\ activeTab' = "forecast"
            /\ chartData' = <<>>
            /\ chartLoading' = TRUE
     ELSE /\ requests' = base (+) SetToBag(cw)
          /\ UNCHANGED <<channels, alertEvents, panelVars, chartVars>>

\* useEffect(() => { loadStations(); setupRealtimeSubscription(); }, []):
\* the callback of the channel is the closure of the first render
Mount ==
  /\ ~mounted
  /\ mounted' = TRUE
  /\ requests' = requests (+) SetToBag({Req("stations", "loadStations", NoStation)})
  /\ wdSubscribed' = TRUE
  /\ subSelectedStation' = selectedStation
  /\ UNCHANGED <<dbVars, runs, faults, direct, seedVars, notifVars, channels, clicks, sample,
                 stations, selectedStation, currentWeather, loading, seeding,
                 toasts, console, panelVars, chartVars>>

\* loadStations after its await
LoadStationsDone(r) ==
  /\ r \in Pending
  /\ r.kind = "loadStations"
  /\ r.stage = "answered"
  /\ IF r.error
       THEN /\ console' = console \cup {"Error loading stations:"}
            /\ toasts' = toasts \cup {"Failed to load weather stations"}
            /\ UNCHANGED <<stations, selectedStation>>
       ELSE /\ stations' = r.data
            /\ selectedStation' = IF Len(r.data) > 0 THEN r.data[1].id ELSE selectedStation
            /\ UNCHANGED <<console, toasts>>
  /\ loading' = FALSE
  \* seedData: await loadStations(), then finally setSeeding(false)
  /\ seeding' = IF r.fromSeed THEN FALSE ELSE seeding
  /\ Rendered(Without(r))
  /\ UNCHANGED <<dbVars, runs, faults, direct, seedVars, wdPending, wdSubscribed,
                 subSelectedStation, sample, clicks, mounted, currentWeather>>

\* loadCurrentWeather after its await
LoadCurrentWeatherDone(r) ==
  /\ r \in Pending
  /\ r.kind = "loadCurrentWeather"
  /\ r.stage = "answered"
  /\ IF r.error
       THEN /\ console' = console \cup {"Error loading current weather:"}
            /\ UNCHANGED currentWeather
       ELSE /\ currentWeather' = r.data[1]
            /\ UNCHANGED console
  /\ requests' = Without(r)
  /\ UNCHANGED <<dbVars, runs, faults, direct, seedVars, notifVars, subVars,
                 subSelectedStation, sample, clicks, mounted, stations, selectedStation, loading,
                 seeding, toasts, panelVars, chartVars>>

\* <select onChange={(e) => setSelectedStation(e.target.value)}>
SelectStation(s) ==
  /\ MainView(loading, stations)
  /\ s \in {stations[i].id : i \in DOMAIN stations}
  /\ s # selectedStation
  /\ BagCardinality(requests) < MaxInflight
  /\ clicks < MaxClicks
  /\ clicks' = clicks + 1
  /\ selectedStation' = s
  /\ UNCHANGED <<stations, loading>>
  /\ Rendered(requests)
  /\ UNCHANGED <<dbVars, runs, faults, direct, seedVars, wdPending, wdSubscribed,
                 subSelectedStation, sample, mounted, currentWeather, seeding, toasts, console>>

\* (variant: the seed buttons are not disabled while seeding)
SeedDataCallEnabled ==
  /\ mounted
  /\ ~loading
  /\ seeding' = TRUE
  /\ Invoke(DashProc)
  /\ UNCHANGED <<dbVars, faults, direct, notifVars, subVars, subSelectedStation, sample,
                 mounted, stations, selectedStation, currentWeather, loading,
                 ioVars, panelVars, chartVars>>

\* seedData, started by one of the two buttons, which are disabled while
\* seeding is true
SeedDataCall ==
  /\ mounted
  /\ ~loading
  /\ ~seeding
  /\ seeding' = TRUE
  /\ Invoke(DashProc)
  /\ UNCHANGED <<dbVars, faults, direct, notifVars, subVars, subSelectedStation, sample,
                 mounted, stations, selectedStation, currentWeather, loading,
                 ioVars, panelVars, chartVars>>

\* a press of a seed button that counts as one of the user's clicks
SeedData ==
  /\ clicks < MaxClicks
  /\ BagCardinality(requests) < MaxInflight
  /\ clicks' = clicks + 1
  /\ SeedDataCall

\* a press of a seed button whenever it is enabled
PressSeed == SeedDataCall /\ UNCHANGED clicks

\* (variant: the station list is reloaded after a failed seed call too)
SeedDataReturnReloads ==
  /\ seeding
  /\ pc[DashProc] = "done"
  /\ pc' = [pc EXCEPT ![DashProc] = "idle"]
  /\ IF result[DashProc] = "success"
       THEN /\ toasts' = toasts \cup {"Weather data seeded successfully!"}
            /\ UNCHANGED console
       ELSE /\ console' = console \cup {"Error seeding data:"}
            /\ toasts' = toasts \cup {"Failed to seed weather data"}
  /\ requests' = requests (+) SetToBag(
       {[Req("stations", "loadStations", NoStation) EXCEPT !.fromSeed = TRUE]})
  /\ UNCHANGED <<dbVars, runs, faults, direct, stationsData, alerts_local, result,
                 notifVars, subVars, subSelectedStation, sample, clicks, mounted, stations,
                 selectedStation, currentWeather, loading, seeding, panelVars, chartVars>>

\* seedData after functions.invoke has answered
SeedDataReturn ==
  /\ seeding
  /\ pc[DashProc] = "done"
  /\ pc' = [pc EXCEPT ![DashProc] = "idle"]
  /\ IF result[DashProc] = "success"
       THEN /\ toasts' = toasts \cup {"Weather data seeded successfully!"}
            /\ requests' = requests (+) SetToBag(
                 {[Req("stations", "loadStations", NoStation) EXCEPT !.fromSeed = TRUE]})
            /\ UNCHANGED <<console, seeding>>
       ELSE /\ console' = console \cup {"Error seeding data:"}
            /\ toasts' = toasts \cup {"Failed to seed weather data"}
            /\ seeding' = FALSE
            /\ UNCHANGED requests
  /\ UNCHANGED <<dbVars, runs, faults, direct, stationsData, alerts_local, result,
                 notifVars, subVars, subSelectedStation, sample, clicks, mounted, stations,
                 selectedStation, currentWeather, loading, panelVars, chartVars>>

\* the callback of the 'weather-updates' channel:
\*   () => { if (selectedStation) loadCurrentWeather(); }
\* with selectedStation the value its closure holds. A notice may be
\* delivered again later (again = TRUE).
OnWeatherDataChange(again) ==
  /\ wdPending
  /\ wdPending' = again
  /\ requests' = IF subSelectedStation # NoStation
                   THEN requests (+)
                          SetToBag({Req("weather", "loadCurrentWeather", subSelectedStation)})
                   ELSE requests
  /\ UNCHANGED <<dbVars, runs, faults, direct, seedVars, alertEvents, subVars,
                 subSelectedStation, sample, clicks, dashVars, toasts, console, panelVars, chartVars>>

\* a notice that is never delivered
DropWeatherDataChange ==
  /\ wdPending
  /\ wdPending' = FALSE
  /\ UNCHANGED <<dbVars, runs, faults, direct, seedVars, alertEvents, subVars,
                 subSelectedStation, sample, clicks, dashVars, ioVars, panelVars, chartVars>>

(***************************************************************************)
(* AlertsPanel.                                                            *)
(***************************************************************************)
\* (variant: setLoading(false) at the end of the try block, not in finally)
LoadAlertsDoneNoFinally(r) ==
  /\ r \in Pending
  /\ r.kind = "loadAlerts"
  /\ r.stage = "answered"
  /\ IF r.error
       THEN /\ console' = console \cup {"Error loading alerts:"}
            /\ toasts' = toasts \cup {"Failed to load weather alerts"}
            /\ UNCHANGED <<alerts, apLoading>>
       ELSE /\ alerts' = IF r.live THEN r.data ELSE alerts
            /\ apLoading' = IF r.live THEN FALSE ELSE apLoading
            /\ UNCHANGED <<console, toasts>>
  /\ requests' = Without(r)
  /\ UNCHANGED <<dbVars, runs, faults, direct, seedVars, notifVars, subVars,
                 subSelectedStation, sample, clicks, dashVars, chartVars>>

\* loadAlerts after its await
LoadAlertsDone(r) ==
  /\ r \in Pending
  /\ r.kind = "loadAlerts"
  /\ r.stage = "answered"
  /\ IF r.error
       THEN /\ console' = console \cup {"Error loading alerts:"}
            /\ toasts' = toasts \cup {"Failed to load weather alerts"}
            /\ UNCHANGED alerts
       ELSE /\ alerts' = IF r.live THEN r.data ELSE alerts
            /\ UNCHANGED <<console, toasts>>
  /\ apLoading' = IF r.live THEN FALSE ELSE apLoading
  /\ requests' = Without(r)
  /\ UNCHANGED <<dbVars, runs, faults, direct, seedVars, notifVars, subVars,
                 subSelectedStation, sample, clicks, dashVars, chartVars>>

\* the callback of the 'weather-alerts' channel, for one change event. The
\* event may be delivered again later (again = TRUE).
OnAlertChange(e, again) ==
  /\ e \in alertEvents
  /\ alertEvents' = IF again THEN alertEvents ELSE alertEvents \ {e}
  /\ IF e.eventType = "INSERT"
       THEN /\ Len(alerts) < MaxAlertsLen
            /\ alerts' = <<e.new>> \o alerts
            /\ toasts' = IF e.new.is_active THEN toasts \cup {e.new.alert_type} ELSE toasts
       ELSE /\ alerts' = [i \in DOMAIN alerts |->
                            IF alerts[i].id = e.new.id THEN e.new ELSE alerts[i]]
            /\ UNCHANGED toasts
  /\ UNCHANGED <<dbVars, runs, faults, direct, seedVars, wdPending, subVars,
                 subSelectedStation, sample, clicks, dashVars, requests, console, apLoading, chartVars>>

\* a change event that is never delivered
DropAlertChange(e) ==
  /\ e \in alertEvents
  /\ alertEvents' = alertEvents \ {e}
  /\ UNCHANGED <<dbVars, runs, faults, direct, seedVars, wdPending, subVars,
                 subSelectedStation, sample, clicks, dashVars, ioVars, panelVars, chartVars>>

\* is_active BOOLEAN: an alert is switched off by an UPDATE issued against
\* the data store directly
DeactivateAlert(a) ==
  /\ a \in AllAlertRows
  /\ a.is_active
  /\ direct < MaxDirect
  /\ direct' = direct + 1
  /\ LET new == [a EXCEPT !.is_active = FALSE]
     IN /\ weather_alerts' =
             [weather_alerts EXCEPT ![a.station_id] = (@ \ {a}) \cup {new}]
        /\ PublishAlerts("UPDATE", [s \in {a.station_id} |-> {new}])
  /\ UNCHANGED <<weather_stations, weather_data, weather_predictions, nextId, runs,
                 faults, seedVars, wdPending, uiVars>>

\* CREATE TABLE weather_alerts, in the supabase_realtime publication: an
\* alert for station s written to the data store directly
InsertAlert(s) ==
  /\ s \in StationIds
  /\ direct < MaxDirect
  /\ direct' = direct + 1
  /\ LET rows == AlertRows(<<[station_id |-> s, alert_type |-> "Heavy Rainfall Alert",
                              severity |-> "medium", is_active |-> TRUE]>>, nextId)
     IN /\ weather_alerts' = InsertRows(weather_alerts, rows)
        /\ nextId' = nextId + 1
        /\ PublishAlerts("INSERT", rows)
  /\ UNCHANGED <<weather_stations, weather_data, weather_predictions, runs,
                 faults, seedVars, wdPending, uiVars>>

(***************************************************************************)
(* WeatherCharts.                                                          *)
(***************************************************************************)
\* one point of chartData: its time, and for the analytics chart the
\* prediction it is paired with (NoPoint: predicted is null or absent)
NoPoint == 0 - 1

Point(t, p) == [time |-> t, predicted |-> p]

ChartDone(r, formatted, label) ==
  /\ r \in Pending
  /\ r.stage = "answered"
  /\ IF r.error
       THEN /\ console' = console \cup {label}
            /\ UNCHANGED chartData
       ELSE /\ chartData' = IF r.live THEN formatted ELSE chartData
            /\ UNCHANGED console
  /\ chartLoading' = IF r.live THEN FALSE ELSE chartLoading
  /\ requests' = Without(r)
  /\ UNCHANGED <<dbVars, runs, faults, direct, seedVars, notifVars, subVars,
                 subSelectedStation, sample, clicks, dashVars, toasts, panelVars, activeTab>>

LoadForecastDone(r) ==
  /\ r.kind = "loadForecastData"
  /\ ChartDone(r, [i \in DOMAIN r.data |-> Point(r.data[i], NoPoint)],
               "Error loading forecast data:")

LoadHistoricalDone(r) ==
  /\ r.kind = "loadHistoricalData"
  /\ ChartDone(r, [i \in DOMAIN r.data |-> Point(Reverse(r.data)[i], NoPoint)],
               "Error loading historical data:")

\* historical?.reverse().map((item, idx) => ... predictions?.[idx] ...)
LoadAnalyticsDone(r) ==
  /\ r.kind = "loadAnalyticsData"
  /\ ChartDone(r, [i \in DOMAIN r.data |->
                     Point(Reverse(r.data)[i],
                           IF i \in DOMAIN r.data2 THEN r.data2[i] ELSE NoPoint)],
               "Error loading analytics data:")

\* <TabsTrigger>: the WeatherCharts of the other tab is mounted in place of
\* the one shown
SwitchTab(t) ==
  /\ MainView(loading, stations)
  /\ t \in Tabs \ {activeTab}
  /\ BagCardinality(requests) < MaxInflight
  /\ clicks < MaxClicks
  /\ clicks' = clicks + 1
  /\ activeTab' = t
  /\ chartData' = <<>>
  /\ chartLoading' = TRUE
  /\ requests' = Orphan(requests, {"chart"}) (+)
                   SetToBag({Req("chart", ChartKind(t), selectedStation)})
  /\ UNCHANGED <<dbVars, runs, faults, direct, seedVars, notifVars, subVars,
                 subSelectedStation, sample, dashVars, toasts, console, panelVars>>

\* the components before their first render, no seed call running
InitClients ==
  /\ faults = 0
  /\ direct = 0
  /\ pc = [p \in Procs |-> "idle"]
  /\ stationsData = [p \in Procs |-> <<>>]
  /\ alerts_local = [p \in Procs |-> <<>>]
  /\ result = [p \in Procs |-> "none"]
  /\ wdSubscribed = FALSE
  /\ wdPending = FALSE
  /\ channels = {}
  /\ alertEvents = {}
  /\ subSelectedStation = NoStation
  /\ clicks = 0
  /\ mounted = FALSE
  /\ stations = <<>>
  /\ selectedStation = NoStation
  /\ currentWeather = Null
  /\ loading = TRUE
  /\ seeding = FALSE
  /\ requests = EmptyBag
  /\ toasts = {}
  /\ console = {}
  /\ alerts = <<>>
  /\ apLoading = TRUE
  /\ activeTab = "forecast"
  /\ chartData = <<>>
  /\ chartLoading = TRUE

\* the data store after the migration: four empty tables
Init ==
  /\ weather_stations = {}
  /\ weather_data = NoRows
  /\ weather_predictions = NoRows
  /\ weather_alerts = NoRows
  /\ nextId = 0
  /\ runs = 0
  /\ sample = NoSample
  /\ InitClients

\* the data store as one successful call of seed-weather-data leaves it
InitSeeded ==
  /\ \E coins \in [CoinIndices -> BOOLEAN] :
       LET new == [i \in DOMAIN SeedStations |-> [id |-> i, name |-> SeedStations[i]]]
           al == GenAlerts(new, coins, 1)
       IN /\ weather_stations = {new[i] : i \in DOMAIN new}
          /\ weather_data = GenWeatherData(new)
          /\ weather_predictions = GenPredictions(new)
          /\ weather_alerts = AlertRows(al, Len(SeedStations))
          /\ nextId = Len(SeedStations) + Len(al)
  /\ runs = 1
  /\ sample = NoSample
  /\ InitClients

\* a DELETE of one station issued against the data store directly, while
\* no seed call is running
DeleteStation(s) ==
  /\ \A p \in Procs : pc[p] \in {"idle", "done"}
  /\ direct < MaxDirect
  /\ direct' = direct + 1
  /\ DeleteStationRows({s})
  /\ UNCHANGED <<nextId, runs, faults, seedVars, alertEvents, uiVars>>

\* the edge function alone, called by two clients that may overlap
NextSeed == \E p \in Procs : ExternalInvoke(p) \/ SeedStep(p)

SpecSeed == Init /\ [][NextSeed]_vars

\* the edge function called by one client, one invocation after the other
NextSeq == ExternalInvoke(DashProc) \/ SeedStep(DashProc)

SpecSeq == Init /\ [][NextSeq]_vars

\* the schema under one seeding client and single-station deletes
NextSchema ==
  \/ ExternalInvoke(DashProc)
  \/ SeedStep(DashProc)
  \/ \E s \in StationIds : DeleteStation(s)

SpecSchema == Init /\ [][NextSchema]_vars

\* the dashboard in a browser and the edge function it calls; the page is
\* opened on a store that was never seeded or seeded once
Next ==
  \/ Mount
  \/ \E r \in Pending : DbAnswer(r)
  \/ \E r \in Pending : LoadStationsDone(r)
  \/ \E r \in Pending : LoadCurrentWeatherDone(r)
  \/ \E r \in Pending : LoadAlertsDone(r)
  \/ \E r \in Pending : LoadForecastDone(r)
  \/ \E r \in Pending : LoadHistoricalDone(r)
  \/ \E r \in Pending : LoadAnalyticsDone(r)
  \/ \E s \in StationIds : SelectStation(s)
  \/ \E t \in Tabs : SwitchTab(t)
  \/ SeedData
  \/ SeedDataReturn
  \/ SeedStep(DashProc)
  \/ \E again \in BOOLEAN : OnWeatherDataChange(again)
  \/ DropWeatherDataChange

Spec == (Init \/ InitSeeded) /\ [][Next]_vars

\* the dashboard on a seeded store while alerts are written and switched
\* off by others
NextAlerts ==
  \/ Mount
  \/ \E r \in Pending : DbAnswer(r)
  \/ \E r \in Pending : LoadStationsDone(r)
  \/ \E r \in Pending : LoadCurrentWeatherDone(r)
  \/ \E r \in Pending : LoadAlertsDone(r)
  \/ \E r \in Pending : LoadForecastDone(r)
  \/ \E s \in StationIds : SelectStation(s)
  \/ \E s \in channels : InsertAlert(s)
  \/ \E e \in alertEvents, again \in BOOLEAN : OnAlertChange(e, again)
  \/ \E e \in alertEvents : DropAlertChange(e)
  \/ \E a \in AllAlertRows : DeactivateAlert(a)

SpecAlerts == InitSeeded /\ [][NextAlerts]_vars

\* the dashboard on a seeded store, every query answered and every answer
\* handled in the end
NextFair ==
  \/ Mount
  \/ \E r \in Pending : DbAnswer(r)
  \/ \E r \in Pending : LoadStationsDone(r)
  \/ \E r \in Pending : LoadCurrentWeatherDone(r)
  \/ \E r \in Pending : LoadAlertsDone(r)
  \/ \E r \in Pending : LoadForecastDone(r)
  \/ \E r \in Pending : LoadHistoricalDone(r)
  \/ \E r \in Pending : LoadAnalyticsDone(r)
  \/ \E s \in StationIds : SelectStation(s)
  \/ \E t \in Tabs : SwitchTab(t)

SpecFair ==
  /\ InitSeeded
  /\ [][NextFair]_vars
  /\ WF_vars(Mount)
  /\ WF_vars(\E r \in Pending : DbAnswer(r))
  /\ WF_vars(\E r \in Pending : LoadStationsDone(r))
  /\ WF_vars(\E r \in Pending : LoadCurrentWeatherDone(r))
  /\ WF_vars(\E r \in Pending : LoadAlertsDone(r))
  /\ WF_vars(\E r \in Pending : LoadForecastDone(r))
  /\ WF_vars(\E r \in Pending : LoadHistoricalDone(r))
  /\ WF_vars(\E r \in Pending : LoadAnalyticsDone(r))

\* The dashboard with its seed buttons: the user presses a button whenever
\* it is enabled and selects nothing.
NextButton ==
  \/ Mount
  \/ \E r \in Pending : DbAnswer(r)
  \/ \E r \in Pending : LoadStationsDone(r)
  \/ \E r \in Pending : LoadCurrentWeatherDone(r)
  \/ \E r \in Pending : LoadAlertsDone(r)
  \/ \E r \in Pending : LoadForecastDone(r)
  \/ PressSeed
  \/ SeedDataReturn
  \/ SeedStep(DashProc)

SpecButton == (Init \/ InitSeeded) /\ [][NextButton]_vars

\* the delete of all stations that a seed call of another client runs,
\* taken on its own while no call of the dashboard is in its statements
ClearStations ==
  /\ \A p \in Procs : pc[p] \in {"idle", "done"}
  /\ StationIds # {}
  /\ direct < MaxDirect
  /\ direct' = direct + 1
  /\ DeleteStationRows(StationIds)
  /\ UNCHANGED <<nextId, runs, faults, seedVars, alertEvents, uiVars>>

\* The dashboard with its seed buttons next to another client that seeds.
NextShared == NextButton \/ ClearStations

SpecShared == (Init \/ InitSeeded) /\ [][NextShared]_vars

(***************************************************************************)
(* The generator of the seed function, one pushed row at a time: the       *)
(* station's profile is drawn first, each step runs one iteration of a     *)
(* loop with some outcome of its Math.random() calls.                      *)
(***************************************************************************)
genFrame == <<dbVars, runs, faults, direct, seedVars, notifVars, subVars,
              subSelectedStation, clicks, dashVars, ioVars, panelVars, chartVars>>

InitGen ==
  /\ weather_stations = {}
  /\ weather_data = NoRows
  /\ weather_predictions = NoRows
  /\ weather_alerts = NoRows
  /\ nextId = 0
  /\ runs = 0
  /\ sample \in {[kind |-> "none", profile |-> pr] : pr \in Profiles}
  /\ InitClients

\* weatherData.push of one iteration of the historical loop
GenObservation ==
  /\ sample.kind = "none"
  /\ \E i \in DOMAIN HistoricalLoop, r \in [1..5 -> Rand] :
        sample' = Observation(sample.profile, i, r)
  /\ UNCHANGED genFrame

\* predictions.push of one iteration of the prediction loop; the state keeps
\* the day and confidence of one prediction pushed before it
GenPrediction ==
  /\ \/ sample.kind = "none"
     \/ sample.kind = "prediction" /\ sample.earlier.day < 0
  /\ \E i \in DOMAIN PredictionLoop, r \in [1..2 -> Rand] :
        /\ sample.kind = "prediction" => i > sample.index
        /\ sample' =
             [Prediction(sample.profile, i, r) EXCEPT !.earlier =
                IF sample.kind = "prediction"
                  THEN [day |-> sample.day, confidence |-> sample.confidence]
                  ELSE @]
  /\ UNCHANGED genFrame

\* the alerts.push calls for the station
GenStationAlerts ==
  /\ sample.kind = "none"
  /\ \E coin \in BOOLEAN :
        sample' = [kind |-> "alerts", profile |-> sample.profile, coin |-> coin,
                   alerts |-> AlertsOf(1, sample.profile, coin)]
  /\ UNCHANGED genFrame

NextGen == GenObservation \/ GenPrediction \/ GenStationAlerts

SpecGen == InitGen /\ [][NextGen]_vars

(***************************************************************************)
(* Properties of the seed function and of the schema.                      *)
(***************************************************************************)
SeedNames == {SeedStations[i] : i \in DOMAIN SeedStations}

StationsNamed(n) == {s \in weather_stations : s.name = n}

\* the ids of the station rows an invocation got back from its insert
SdIds(p) == {stationsData[p][i].id : i \in DOMAIN stationsData[p]}

\* the number of weather_data rows of the stations called n
DataCount(n) ==
  LET ids == {s.id : s \in StationsNamed(n)}
      RECURSIVE Sum(_)
      Sum(S) == IF S = {} THEN 0
                ELSE LET x == CHOOSE y \in S : TRUE
                     IN Cardinality(RowsOf(weather_data, x)) + Sum(S \ {x})
  IN Sum(ids)

Succeeded(p) == pc[p] = "done" /\ result[p] = "success"

\* C3: after sequential seed invocations that each completed successfully
\* the stations table holds exactly one row per station name (5 rows), and
\* the child tables hold exactly the rows of the last run.
C3_SeedReplaces ==
  Succeeded(DashProc) =>
    /\ \A n \in SeedNames : Cardinality(StationsNamed(n)) = 1
    /\ Cardinality(weather_stations) = Len(SeedStations)
    /\ StationIds = SdIds(DashProc)
    /\ weather_data = GenWeatherData(stationsData[DashProc])
    /\ weather_predictions = GenPredictions(stationsData[DashProc])
    /\ DOMAIN weather_alerts \subseteq SdIds(DashProc)
    /\ Cardinality(AllAlertRows) = Len(alerts_local[DashProc])

\* C4: the seed is not safe to run concurrently with itself. The station
\* insert of an invocation never replaces what the table holds: it adds one
\* row per station name, also when another invocation has put rows of the
\* same names there since this invocation's delete.
C4_InsertAddsRows ==
  [][\A p \in Procs :
       (pc[p] = "insStations" /\ pc'[p] = "insData") =>
          \A n \in SeedNames :
             Cardinality(StationsNamed(n))' = Cardinality(StationsNamed(n)) + 1]_vars

\* two overlapping invocations, no statement failed, both answered success:
\* a station name has two rows and more than 192 observations
C4_Witness ==
  /\ faults = 0
  /\ \A p \in Procs : Succeeded(p)
  /\ \E n \in SeedNames :
        /\ Cardinality(StationsNamed(n)) = 2
        /\ DataCount(n) > (HistDays + 1) * HoursPerDay

\* C5: no rollback. When the predictions insert of a seed call has failed
\* after its observations insert succeeded, the call has answered with an
\* error while the stations and observations it inserted are persisted and
\* no prediction or alert of that run exists.
C5_PartialSeed ==
  (pc[DashProc] = "done" /\ result[DashProc] = "predError") =>
    /\ SdIds(DashProc) # {}
    /\ SdIds(DashProc) \subseteq StationIds
    /\ \A s \in SdIds(DashProc) :
          /\ RowsOf(weather_data, s) = HistoricalRows
          /\ RowsOf(weather_predictions, s) = {}
          /\ RowsOf(weather_alerts, s) = {}

C5_Witness ==
  /\ pc[DashProc] = "done"
  /\ result[DashProc] = "predError"
  /\ Cardinality(DOMAIN weather_data) = Len(SeedStations)
  /\ weather_predictions = NoRows

\* C6: in every reachable state of the data store every observation,
\* prediction and alert row references a station row that exists.
C6_ReferentialIntegrity ==
  \A table \in {weather_data, weather_predictions, weather_alerts} :
     \A s \in DOMAIN table : table[s] # {} => s \in StationIds

\* an interleaving in which a bulk insert was rejected by the foreign key:
\* the other invocation had deleted the stations the rows refer to
C6_Witness ==
  /\ faults = 0
  /\ \E p \in Procs : pc[p] = "done" /\ result[p] = "dataError"
  /\ weather_data # NoRows

\* C7: a delete of stations removes every observation, prediction and alert
\* of the deleted stations and leaves the rows of every other station as
\* they were.
C7_CascadeDelete ==
  [][(StationIds' # StationIds /\ StationIds' \subseteq StationIds) =>
       \A table \in {<<weather_data, weather_data'>>,
                     <<weather_predictions, weather_predictions'>>,
                     <<weather_alerts, weather_alerts'>>} :
          \A s \in StationIds :
             IF s \in StationIds'
               THEN RowsOf(table[2], s) = RowsOf(table[1], s)
               ELSE RowsOf(table[2], s) = {}]_vars

\* one station of a seeded set is gone with its rows, the others keep theirs
C7_Witness ==
  /\ Cardinality(weather_stations) = Len(SeedStations) - 1
  /\ \A s \in StationIds : RowsOf(weather_data, s) = HistoricalRows
  /\ \E s \in SdIds(DashProc) : s \notin StationIds /\ s \notin DOMAIN weather_data

(***************************************************************************)
(* Properties of the dashboard and its components.                         *)
(***************************************************************************)
WeatherReq(sid) == Req("weather", "loadCurrentWeather", sid)

\* C1: while a station is selected, the handler of a weather_data change
\* notification starts a re-fetch of the current weather of the station
\* selected when the notification arrives.
C1_NotificationRefetches ==
  [][(selectedStation # NoStation /\ \E again \in BOOLEAN : OnWeatherDataChange(again))
       => CopiesIn(WeatherReq(selectedStation), requests')
            > CopiesIn(WeatherReq(selectedStation), requests)]_vars

NoDuplicateIds(list) ==
  \A i, j \in DOMAIN list : i # j => list[i].id # list[j].id

\* every alert notification has been delivered or dropped, and the last
\* loadAlerts of the panel has ended without an error
AlertsSettled ==
  /\ MainView(loading, stations)
  /\ ~apLoading
  /\ alertEvents = {}
  /\ \A r \in Pending : r.kind # "loadAlerts"
  /\ "Failed to load weather alerts" \notin toasts

\* C2: whatever alert INSERT/UPDATE notifications were delivered twice or
\* not at all, the alerts list of AlertsPanel ends up equal to what a fresh
\* loadAlerts would return, and never holds one alert id twice.
C2_NotificationsKeepAlerts ==
  AlertsSettled => /\ NoDuplicateIds(alerts)
                   /\ alerts \in ActiveAlerts(selectedStation)

FetchDone(r) ==
  \/ LoadStationsDone(r)
  \/ LoadCurrentWeatherDone(r)
  \/ LoadAlertsDone(r)
  \/ LoadForecastDone(r)
  \/ LoadHistoricalDone(r)
  \/ LoadAnalyticsDone(r)

\* the console.error line of each loader
ErrorLog(kind) ==
  CASE kind = "loadStations" -> "Error loading stations:"
    [] kind = "loadCurrentWeather" -> "Error loading current weather:"
    [] kind = "loadAlerts" -> "Error loading alerts:"
    [] kind = "loadForecastData" -> "Error loading forecast data:"
    [] kind = "loadHistoricalData" -> "Error loading historical data:"
    [] OTHER -> "Error loading analytics data:"

C9_SeedFailureNonFatal ==
  [][(result[DashProc] # "success" /\ SeedDataReturn) =>
        /\ "Failed to seed weather data" \in toasts'
        /\ "Error seeding data:" \in console'
        /\ requests' = requests
        /\ UNCHANGED <<stations, selectedStation, currentWeather>>
        /\ seeding /\ ~seeding'
        /\ pc'[DashProc] = "idle"]_vars

C9_Witness ==
  /\ "Failed to seed weather data" \in toasts
  /\ ~seeding
  /\ pc[DashProc] = "idle"
  /\ result[DashProc] \notin {"none", "success"}

\* C10: when loadStations, loadAlerts or a chart load has finished, with
\* data or with an error, the loading flag of its component is false; and if
\* the data store answers every query, every started fetch gets there.
C10_FetchEndsIdle ==
  /\ [][\A r \in Pending :
          /\ LoadStationsDone(r) => ~loading'
          /\ (r.live /\ LoadAlertsDone(r)) => ~apLoading'
          /\ (r.live /\ (LoadForecastDone(r) \/ LoadHistoricalDone(r)
                           \/ LoadAnalyticsDone(r))) => ~chartLoading']_vars
  /\ (\E r \in Pending : r.kind = "loadStations") ~> ~loading
  /\ (\E r \in Pending : r.kind = "loadAlerts" /\ r.live) ~> ~apLoading
  /\ (\E r \in Pending : r.comp = "chart" /\ r.live) ~> ~chartLoading

\* a fetch has failed, every fetch has ended, no loading flag is up
C10_Witness ==
  /\ mounted
  /\ requests = EmptyBag
  /\ console # {}
  /\ MainView(loading, stations)
  /\ ~apLoading
  /\ ~chartLoading


\* the four tables of the schema
tables == <<weather_stations, weather_data, weather_predictions, weather_alerts>>

\* a step of a dashboard query: its start, its answer or its callback
QueryStep ==
  \/ Mount
  \/ \E s \in StationIds : SelectStation(s)
  \/ \E t \in Tabs : SwitchTab(t)
  \/ \E r \in Pending : DbAnswer(r) \/ FetchDone(r)

\* C11: every step of a dashboard query (loadStations, loadCurrentWeather,
\* loadAlerts, the chart loads) leaves the four tables as they were, whatever
\* the interleaving of the fetches, and the rows of weather_stations change
\* only in the delete and insert steps of the seed function
C11_QueriesArePureReads ==
  [][/\ QueryStep => UNCHANGED tables
     /\ weather_stations' # weather_stations =>
           DeleteStations(DashProc) \/ InsertStations(DashProc)]_vars

\* the dashboard has fetched stations, reading and alerts of a seeded store
C11_Witness ==
  /\ MainView(loading, stations)
  /\ currentWeather # Null
  /\ Len(alerts) > 0
  /\ StationIds # {}
  /\ \E r \in Pending : r.stage = "answered"

(***************************************************************************)
(* Properties of the generated rows.                                       *)
(***************************************************************************)
HeatWaves(al) == {i \in DOMAIN al : al[i].alert_type = "Heat Wave Warning"}

\* C12: the generator pushes a Heat Wave Warning for a station exactly when
\* the baseTemp of its profile is above 38, and the severity of that alert is
\* extreme exactly when the baseTemp is above 42, high otherwise
C12_HeatWaveThresholds ==
  sample.kind = "alerts" =>
    /\ HeatWaves(sample.alerts) # {} <=> sample.profile.baseTemp > 38
    /\ \A i \in HeatWaves(sample.alerts) :
          /\ sample.alerts[i].severity = "extreme" <=> sample.profile.baseTemp > 42
          /\ sample.alerts[i].severity \in {"extreme", "high"}

\* a heat wave of severity high and, for a baseTemp of exactly 38, none
C12_Witness ==
  /\ sample.kind = "alerts"
  /\ \/ /\ sample.profile.baseTemp = 39
        /\ \E i \in HeatWaves(sample.alerts) : sample.alerts[i].severity = "high"
     \/ /\ sample.profile.baseTemp = 42
        /\ \E i \in HeatWaves(sample.alerts) : sample.alerts[i].severity = "high"

\* the severities the CHECK constraint of weather_alerts admits
Severities == {"low", "medium", "high", "extreme"}

\* C13: every alert the generator pushes, for every profile and every
\* outcome of the humidity coin, has a severity among low, medium, high and
\* extreme and is active when it is created
C13_AlertsWellFormed ==
  sample.kind = "alerts" =>
    \A i \in DOMAIN sample.alerts :
       /\ sample.alerts[i].severity \in Severities
       /\ sample.alerts[i].is_active = TRUE

\* the four kinds of alert pushed for one station, the heat wave extreme
C13_Witness ==
  /\ sample.kind = "alerts"
  /\ Len(sample.alerts) = 4
  /\ {sample.alerts[i].severity : i \in DOMAIN sample.alerts} = {"extreme", "medium", "low"}

\* C14: every observation the generator pushes has a humidity between 20 and
\* 95, a wind speed of at least 0 and a precipitation of at least 0, for
\* every profile, hour and outcome of the random draws
C14_ObservationRanges ==
  sample.kind = "observation" =>
    /\ sample.humidity >= 20 * 100 /\ sample.humidity <= 95 * 100
    /\ sample.wind_speed >= 0
    /\ sample.precipitation >= 0

\* an observation whose computed humidity was above 95 and whose wind noise
\* went below zero, on a rainy hour
C14_Witness ==
  /\ sample.kind = "observation"
  /\ HumidityBase(sample.profile, HistoricalLoop[sample.index].hour) > 95 * Unit
  /\ sample.humidity = 95 * 100
  /\ sample.profile.windSpeed.min = 0
  /\ sample.wind_speed = 0
  /\ sample.precipitation > 0

\* C15: every prediction the generator pushes has a confidence between 75
\* and 98 and a predicted humidity between 20 and 95, for every day 0..4
C15_PredictionRanges ==
  sample.kind = "prediction" =>
    /\ sample.day \in 0..4
    /\ sample.confidence >= 75 * 100 /\ sample.confidence <= 98 * 100
    /\ sample.predicted_humidity >= 20 * 100 /\ sample.predicted_humidity <= 95 * 100

\* a prediction of the last day whose computed humidity was below 20
C15_Witness ==
  /\ sample.kind = "prediction"
  /\ sample.day = 4
  /\ HumidityBase(sample.profile, sample.hour) < 20 * Unit
  /\ sample.predicted_humidity = 20 * 100

\* the seed call p has inserted its observations
DataInserted(p) ==
  \/ pc[p] \in {"insPreds", "insAlerts"}
  \/ pc[p] = "done" /\ result[p] \in {"predError", "alertError", "success"}

\* the seed call p has inserted its predictions
PredictionsInserted(p) ==
  \/ pc[p] = "insAlerts"
  \/ pc[p] = "done" /\ result[p] \in {"alertError", "success"}

\* the number of rows a table holds for the stations of ids
RECURSIVE RowCount(_, _)
RowCount(table, ids) ==
  IF ids = {} THEN 0
  ELSE LET x == CHOOSE y \in ids : TRUE
       IN  Cardinality(RowsOf(table, x)) + RowCount(table, ids \ {x})

\* C16: the historical loop runs for day 0..7 and hour 0..23: a seed run over
\* the 5 stations pushes and inserts exactly 960 observations, 192 for each
\* of its stations
C16_ObservationCount ==
  DataInserted(DashProc) =>
    /\ Len(HistoricalLoop) * Len(stationsData[DashProc]) = 960
    /\ {HistoricalLoop[i].day : i \in DOMAIN HistoricalLoop} = 0..7
    /\ {HistoricalLoop[i].hour : i \in DOMAIN HistoricalLoop} = 0..23
    /\ \A s \in SdIds(DashProc) : Cardinality(RowsOf(weather_data, s)) = 192
    /\ RowCount(weather_data, SdIds(DashProc)) = 960

\* a seed run has answered success with its 960 observations in the table
C16_Witness ==
  /\ Succeeded(DashProc)
  /\ RowCount(weather_data, SdIds(DashProc)) = 960

\* C17: the prediction loop runs for 5 days in steps of 6 hours: a seed run
\* pushes and inserts 20 predictions for each of its stations
C17_PredictionCount ==
  PredictionsInserted(DashProc) =>
    /\ Len(PredictionLoop) = 20
    /\ {PredictionLoop[i].day : i \in DOMAIN PredictionLoop} = 0..4
    /\ {PredictionLoop[i].hour : i \in DOMAIN PredictionLoop} = {0, 6, 12, 18}
    /\ \A s \in SdIds(DashProc) : Cardinality(RowsOf(weather_predictions, s)) = 20

\* a seed run has answered success with 20 predictions for each station
C17_Witness ==
  /\ Succeeded(DashProc)
  /\ Cardinality(SdIds(DashProc)) = 5
  /\ \A s \in SdIds(DashProc) : Cardinality(RowsOf(weather_predictions, s)) = 20

\* the confidence of day d before noise and clamping, in hundredths
ExpectedConfidence(d) == (95 - 3 * d) * 100

\* C18: the confidence of a prediction of day d lies within 2 of 95 - 3 * d
\* (95 at day 0, 83 at day 4), so of two predictions of a station the one
\* two or more days further out never has the higher confidence
C18_ConfidenceDecays ==
  sample.kind = "prediction" =>
    /\ ExpectedConfidence(0) = 95 * 100 /\ ExpectedConfidence(4) = 83 * 100
    /\ sample.confidence - ExpectedConfidence(sample.day) \in (0 - 200)..200
    /\ (sample.earlier.day >= 0 /\ sample.day >= sample.earlier.day + 2) =>
          sample.confidence <= sample.earlier.confidence

\* two predictions two days apart, the nearer with the lowest and the
\* further with the highest confidence of its day
C18_Witness ==
  /\ sample.kind = "prediction"
  /\ sample.earlier.day >= 0
  /\ sample.day = sample.earlier.day + 2
  /\ sample.earlier.confidence = ExpectedConfidence(sample.earlier.day) - 200
  /\ sample.confidence = ExpectedConfidence(sample.day) + 200

\* C19: the observations of a station are pushed oldest first: the i-th
\* pushed row lies 192 - i hours before now, so the offsets day * 24 +
\* (23 - hour) run through 191, 190, ..., 0, each once
C19_OldestFirst ==
  sample.kind = "observation" =>
    /\ sample.hoursAgo = (HistDays + 1) * HoursPerDay - sample.index
    /\ sample.hoursAgo \in 0..191

\* the first row pushed after the day index went from 7 to 6
C19_Witness ==
  /\ sample.kind = "observation"
  /\ sample.index = HoursPerDay + 1
  /\ HistoricalLoop[sample.index].day = HistDays - 1
  /\ sample.hoursAgo = 167

\* C20: every generated prediction has a future timestamp: its
\* prediction_date is strictly later than the time it was generated at
C20_PredictionsInFuture ==
  sample.kind = "prediction" => sample.hoursAhead > 0

AlertsOfType(al, type) == {i \in DOMAIN al : al[i].alert_type = type}

\* C21: the generator pushes a Heavy Rainfall Alert, of severity medium,
\* exactly when rainProbability > 0.22, a Strong Wind Advisory, of severity
\* medium, exactly when windSpeed.max > 30, and a High Humidity Alert, of
\* severity low, only when humidity.max > 75; a profile that meets none of
\* the thresholds gets no alert
C21_AlertThresholds ==
  sample.kind = "alerts" =>
    LET al == sample.alerts
        pr == sample.profile
    IN  /\ AlertsOfType(al, "Heavy Rainfall Alert") # {} <=> pr.rainProbability > 22
        /\ AlertsOfType(al, "Strong Wind Advisory") # {} <=> pr.windSpeed.max > 30
        /\ AlertsOfType(al, "High Humidity Alert") # {} => pr.humidity.max > 75
        /\ \A i \in AlertsOfType(al, "Heavy Rainfall Alert") \cup
                    AlertsOfType(al, "Strong Wind Advisory") : al[i].severity = "medium"
        /\ \A i \in AlertsOfType(al, "High Humidity Alert") : al[i].severity = "low"
        /\ (pr.baseTemp <= 38 /\ pr.rainProbability <= 22 /\ pr.windSpeed.max <= 30
              /\ pr.humidity.max <= 75) => al = <<>>

\* a profile exactly on the rain, wind and humidity thresholds: none of the
\* three alerts, whatever the coin
C21_Witness ==
  /\ sample.kind = "alerts"
  /\ sample.coin
  /\ sample.profile.rainProbability = 22
  /\ sample.profile.windSpeed.max = 30
  /\ sample.profile.humidity.max = 75
  /\ \A i \in DOMAIN sample.alerts : sample.alerts[i].alert_type = "Heat Wave Warning"

(***************************************************************************)
(* Properties of the dashboard, the alerts panel and the seed button.      *)
(***************************************************************************)
\* C22: whenever no loadCurrentWeather fetch is in flight, currentWeather is
\* null or the latest observation of the station selected now, whatever the
\* selections made and the order the answers, good or bad, arrived in
C22_CurrentWeatherOfSelected ==
  (\A r \in Pending : r.kind # "loadCurrentWeather") =>
     \/ currentWeather = Null
     \/ /\ currentWeather.station_id = selectedStation
        /\ RowsOf(weather_data, selectedStation) # {} =>
              currentWeather.hoursAgo = LatestData(selectedStation, 1)[1]

\* C23: once the loadAlerts of the current stationId has completed, every
\* alert in the alerts list of AlertsPanel belongs to the current stationId,
\* however often the stationId has changed: notifications for a station
\* selected before no longer reach the list
C23_AlertsOfCurrentStation ==
  (MainView(loading, stations) /\ \A r \in Pending : r.kind # "loadAlerts") =>
     \A i \in DOMAIN alerts : alerts[i].station_id = selectedStation

\* C24: every alert in the list AlertsPanel shows as Active Weather Alerts
\* has is_active = true, and the list holds at most 10 alerts, after any
\* loadAlerts results and INSERT and UPDATE notifications
C24_ListHoldsActiveAlerts ==
  /\ \A i \in DOMAIN alerts : alerts[i].is_active
  /\ Len(alerts) <= AlertsLimit

\* C25: whenever a seed invocation has answered success, every station,
\* observation, prediction and alert row that existed before it is gone:
\* the tables hold rows of the stations of this invocation only, also when
\* one of the four delete calls returned an error
C25_SuccessRemovesOldRows ==
  Succeeded(DashProc) =>
    /\ StationIds \subseteq SdIds(DashProc)
    /\ \A s \in StationIds \ SdIds(DashProc) :
         /\ RowsOf(weather_data, s) = {}
         /\ RowsOf(weather_predictions, s) = {}
         /\ RowsOf(weather_alerts, s) = {}

\* C26: within one dashboard at most one seed invocation is in flight:
\* seedData starts only when the invocation before it has come back, and
\* while an invocation is in flight seeding is true and the buttons are
\* disabled
C26_OneSeedInFlight ==
  [][/\ PressSeed => pc[DashProc] = "idle"
     /\ pc'[DashProc] # "idle" => seeding']_vars

\* a second seedData of the dashboard is in flight, the first has completed
C26_Witness ==
  /\ "Weather data seeded successfully!" \in toasts
  /\ seeding
  /\ pc[DashProc] \notin {"idle", "done"}

StationListIds == {stations[i].id : i \in DOMAIN stations}

\* C27: in every state of the dashboard selectedStation is empty or the id
\* of a station in the local stations list, after any loadStations results,
\* empty ones and failures among them, selections and reseeds
C27_SelectedIsListed ==
  selectedStation = NoStation \/ selectedStation \in StationListIds

\* the id a seed call got for the station called n
IdOf(p, n) == {stationsData[p][i].id : i \in {j \in DOMAIN stationsData[p] :
                                                stationsData[p][j].name = n}}

\* C28: with the built-in stations and profiles a successful seed run
\* creates alerts for Mumbai only: one Heavy Rainfall Alert, one Strong Wind
\* Advisory and at most one High Humidity Alert, 2 or 3 alerts in all, and
\* never a Heat Wave Warning
C28_AlertsForMumbaiOnly ==
  Succeeded(DashProc) =>
    LET al == alerts_local[DashProc]
    IN  /\ Len(al) \in {2, 3}
        /\ \A i \in DOMAIN al : al[i].station_id \in IdOf(DashProc, "Mumbai")
        /\ Cardinality(AlertsOfType(al, "Heavy Rainfall Alert")) = 1
        /\ Cardinality(AlertsOfType(al, "Strong Wind Advisory")) = 1
        /\ Cardinality(AlertsOfType(al, "High Humidity Alert")) <= 1
        /\ AlertsOfType(al, "Heat Wave Warning") = {}
        /\ \A s \in SdIds(DashProc) :
             Cardinality(RowsOf(weather_alerts, s)) =
               IF s \in IdOf(DashProc, "Mumbai") THEN Len(al) ELSE 0

\* a successful run whose humidity coin came up: three alerts in the table
C28_Witness ==
  /\ Succeeded(DashProc)
  /\ Len(alerts_local[DashProc]) = 3
  /\ \E s \in IdOf(DashProc, "Mumbai") : Cardinality(RowsOf(weather_alerts, s)) = 3

================================================================
